---- MODULE Spec2Model ----
(***************************************************************************)
(* csv_to_mtx: a CSV of origin-destination flows (sparse triples or a      *)
(* rectangular cross-tab) is read into triples, a zone list is resolved,   *)
(* a dense n*n matrix is assembled and written as an MTX container.        *)
(* Model of src/src/main.rs.                                               *)
(*                                                                         *)
(* Values: an i32 is an integer; an f32 is its IEEE-754 bit pattern        *)
(* (0.0 = 0, 1.0 = 0x3F800000, ...), restricted to non-negative floats so  *)
(* the pattern fits TLC's integers.  A CSV field is a string.              *)
(***************************************************************************)
EXTENDS Integers, Sequences, FiniteSets, TLC

VARIABLES
    pc,              \* position of main / of the running function
    nread,           \* records the CSV iterator has yielded so far
    first_record,    \* read_csv: the first record (decides the format)
    record,          \* the record the reader loop is looking at
    record_ok,       \* whether the iterator yielded it as Ok (equal length)
    destinations,    \* read_rectangular_csv_from_records: header ids
    data,            \* Vec<(i32, i32, f32)>: the triples
    arg_len,         \* arg.len(): 3, or 4 when a zone file is given
    zone_file,       \* the rows of the file arg[3] (<< >> without one)
    all_zones,       \* Vec<i32> returned by get_all_zones
    zone_index,      \* build_matrix: HashMap<i32, usize>
    matrix,          \* Vec<f32>, flat row-major
    next_triple,     \* build_matrix: position of the for loop in data
    output_gz,       \* output_file_name.ends_with(".gz")
    is_little_endian,\* cfg!(target_endian = "little")
    handed,          \* every byte handed to writer.write_all, in order
    sections,        \* the write_all calls completed, in order
    buffered,        \* bytes held by the BufWriter
    pushed,          \* bytes the BufWriter has pushed to its inner writer
    write_failed     \* an inner write has returned an error

vars == <<pc, nread, first_record, record, record_ok, destinations, data,
          arg_len, zone_file, all_zones, zone_index, matrix, next_triple, output_gz,
          is_little_endian, handed, sections, buffered, pushed, write_failed>>

argVars == <<arg_len, zone_file>>
readerVars == <<nread, first_record, record, record_ok, destinations>>
writerVars == <<output_gz, is_little_endian, handed, sections, buffered,
                pushed, write_failed>>

(***************************************************************************)
(* Bounds of the model.                                                    *)
(***************************************************************************)
MaxRows == 2        \* records read after the first one
MaxTriples == 2     \* triples drawn when the assembler is checked alone
MaxZoneRows == 3    \* data rows of a zone file
MaxZones == 2       \* zones drawn when the serializer is checked alone
BufCapacity == 16   \* capacity of the BufWriter, scaled down from 8192

(***************************************************************************)
(* str::parse::<i32>() and str::parse::<f32>() on the fields of the model. *)
(***************************************************************************)
ParsesI32(s) == s \in {"0", "1", "2", "9", "-1"}

ParseI32(s) ==
    CASE s = "0" -> 0
      [] s = "1" -> 1
      [] s = "2" -> 2
      [] s = "9" -> 9
      [] s = "-1" -> -1

ParsesF32(s) == s \in {"0", "1", "2", "9", "0.0", "2.0", "3.0"}

ParseF32(s) ==
    CASE s = "0" -> 0
      [] s = "0.0" -> 0
      [] s = "1" -> 1065353216
      [] s = "2" -> 1073741824
      [] s = "2.0" -> 1073741824
      [] s = "3.0" -> 1077936128
      [] s = "9" -> 1091567616

\* value != 0.0 on a non-negative, non-NaN f32
NonZeroF32(v) == v # 0

(***************************************************************************)
(* Input domains.  A row is a non-empty sequence of fields.                *)
(***************************************************************************)
RowDomain ==
    { <<"1", "1", "2.0">>,            \* sparse rows of the spec's example
      <<"1", "2", "0.0">>,
      <<"2", "1", "3.0">>,
      <<"1", "2", "9">>,
      <<"1", "2", "x">>,              \* value does not parse
      <<"x", "1", "2.0">>,            \* origin does not parse
      <<"", "1", "2">>,               \* a label cell and two ids: 3 fields
      <<"", "1", "x", "2">>,          \* header with a non-numeric entry
      <<"", "2", "1", "9">>,          \* header, three destinations
      <<"1", "2.0", "0.0", "3.0">>,   \* cross-tab row with a zero cell
      <<"2", "x", "3.0", "9">>,       \* cross-tab row with a bad cell
      <<"2", "1", "3.0", "9">>,
      <<"", "1">>,                    \* header, one destination
      <<"2", "3.0">>,
      <<"x", "x">>,                   \* header without any id
      <<"9">>,                        \* one field
      <<"1", "2.0", "3.0", "0", "9">> \* five fields
    }

ZoneRowDomain == { <<"1">>, <<"2">>, <<"x">> }

ZoneHeader == <<"zone">>

RECURSIVE SeqsUpTo(_, _)
SeqsUpTo(S, n) ==
    IF n = 0 THEN { <<>> }
    ELSE LET shorter == SeqsUpTo(S, n - 1)
         IN  shorter \cup { Append(s, x) : s \in shorter, x \in S }

Range(s) == { s[k] : k \in 1..Len(s) }

IsSorted(s) == \A k \in 1..(Len(s) - 1) : s[k] <= s[k + 1]

(***************************************************************************)
(* csv::StringRecordsIter with has_headers(false) and the default          *)
(* flexible(false): a record whose field count differs from the first      *)
(* record's is yielded as Err(UnequalLengths); filter_map(Result::ok)      *)
(* drops it.                                                               *)
(***************************************************************************)
RecordIsOk(rec, first) == Len(rec) = Len(first)

\* variant of SparseTriples with the zero check of the rectangular loop
SparseTriples_SkipZero(rec) ==
    IF /\ ParsesI32(rec[1]) /\ ParsesI32(rec[2]) /\ ParsesF32(rec[3])
       /\ NonZeroF32(ParseF32(rec[3]))
    THEN << <<ParseI32(rec[1]), ParseI32(rec[2]), ParseF32(rec[3])>> >>
    ELSE << >>

\* read_csv, 3-column branch: one record to zero or one triple
SparseTriples(rec) ==
    IF ParsesI32(rec[1]) /\ ParsesI32(rec[2]) /\ ParsesF32(rec[3])
    THEN << <<ParseI32(rec[1]), ParseI32(rec[2]), ParseF32(rec[3])>> >>
    ELSE << >>

\* read_rectangular_csv_from_records: header.iter().skip(1).filter_map(parse)
RECURSIVE ParseDestinations(_, _)
ParseDestinations(header, k) ==
    IF k > Len(header) THEN << >>
    ELSE (IF ParsesI32(header[k]) THEN <<ParseI32(header[k])>> ELSE << >>)
         \o ParseDestinations(header, k + 1)

\* variant of RectCells without the test value != 0.0
RECURSIVE RectCells_KeepZero(_, _, _, _)
RectCells_KeepZero(rec, origin, dests, col_idx) ==
    IF col_idx + 2 > Len(rec) THEN << >>
    ELSE LET value_str == rec[col_idx + 2]
         IN  (IF col_idx < Len(dests) /\ ParsesF32(value_str)
              THEN << <<origin, dests[col_idx + 1], ParseF32(value_str)>> >>
              ELSE << >>)
             \o RectCells_KeepZero(rec, origin, dests, col_idx + 1)

\* the inner for loop over record.iter().skip(1).enumerate(), from col_idx on
RECURSIVE RectCells(_, _, _, _)
RectCells(rec, origin, dests, col_idx) ==
    IF col_idx + 2 > Len(rec) THEN << >>
    ELSE LET value_str == rec[col_idx + 2]
         IN  (IF /\ col_idx < Len(dests)
                 /\ ParsesF32(value_str)
                 /\ NonZeroF32(ParseF32(value_str))
              THEN << <<origin, dests[col_idx + 1], ParseF32(value_str)>> >>
              ELSE << >>)
             \o RectCells(rec, origin, dests, col_idx + 1)

\* one row of the rectangular loop
RectTriples(rec, dests) ==
    IF ParsesI32(rec[1]) THEN RectCells(rec, ParseI32(rec[1]), dests, 0)
    ELSE << >>

(***************************************************************************)
(* read_csv, one action per call of records.next().                        *)
(***************************************************************************)
ReadReturn ==
    /\ pc' = "get_all_zones"
    /\ first_record' = << >>
    /\ record' = << >>
    /\ record_ok' = FALSE
    /\ destinations' = << >>
    /\ nread' = 0

\* the file is empty (or its first record is an error): Vec::new()
ReadEmpty ==
    /\ pc = "read_csv"
    /\ data' = << >>
    /\ ReadReturn
    /\ UNCHANGED <<argVars, all_zones, zone_index, matrix,
                   next_triple, writerVars>>

\* variant of ReadFirstSparse that tests first_record.len() >= 3
ReadFirstSparse_AtLeast3 ==
    /\ pc = "read_csv"
    /\ \E rec \in RowDomain :
         /\ Len(rec) >= 3
         /\ first_record' = rec
         /\ record' = rec
         /\ data' = SparseTriples(rec)
    /\ record_ok' = TRUE
    /\ nread' = 1
    /\ pc' = "sparse_loop"
    /\ UNCHANGED <<destinations, argVars, all_zones, zone_index, matrix,
                   next_triple, writerVars>>

\* first record has exactly 3 fields: the 3-column format
ReadFirstSparse ==
    /\ pc = "read_csv"
    /\ \E rec \in RowDomain :
         /\ Len(rec) = 3
         /\ first_record' = rec
         /\ record' = rec
         /\ data' = SparseTriples(rec)
    /\ record_ok' = TRUE
    /\ nread' = 1
    /\ pc' = "sparse_loop"
    /\ UNCHANGED <<destinations, argVars, all_zones, zone_index, matrix,
                   next_triple, writerVars>>

\* any other field count: read_rectangular_csv_from_records
ReadFirstRect ==
    /\ pc = "read_csv"
    /\ \E rec \in RowDomain :
         /\ Len(rec) # 3
         /\ first_record' = rec
         /\ record' = rec
         /\ destinations' = ParseDestinations(rec, 2)
    /\ record_ok' = TRUE
    /\ nread' = 1
    /\ data' = << >>
    /\ pc' = "rect_header"
    /\ UNCHANGED <<argVars, all_zones, zone_index, matrix, next_triple,
                   writerVars>>

\* if destinations.is_empty() { return Vec::new(); }
RectCheckHeader ==
    /\ pc = "rect_header"
    /\ IF destinations = << >>
       THEN ReadReturn
       ELSE /\ pc' = "rect_loop"
            /\ UNCHANGED <<nread, first_record, record, record_ok,
                           destinations>>
    /\ UNCHANGED <<data, argVars, all_zones, zone_index, matrix,
                   next_triple, writerVars>>

SparseNext ==
    /\ pc = "sparse_loop"
    /\ nread <= MaxRows
    /\ \E rec \in RowDomain :
         /\ record' = rec
         /\ record_ok' = RecordIsOk(rec, first_record)
         /\ data' = IF RecordIsOk(rec, first_record)
                    THEN data \o SparseTriples(rec)
                    ELSE data
    /\ nread' = nread + 1
    /\ UNCHANGED <<pc, first_record, destinations, argVars, all_zones,
                   zone_index, matrix, next_triple, writerVars>>

SparseEnd ==
    /\ pc = "sparse_loop"
    /\ ReadReturn
    /\ UNCHANGED <<data, argVars, all_zones, zone_index, matrix,
                   next_triple, writerVars>>

RectNext ==
    /\ pc = "rect_loop"
    /\ nread <= MaxRows
    /\ \E rec \in RowDomain :
         /\ record' = rec
         /\ record_ok' = RecordIsOk(rec, first_record)
         /\ data' = IF RecordIsOk(rec, first_record)
                    THEN data \o RectTriples(rec, destinations)
                    ELSE data
    /\ nread' = nread + 1
    /\ UNCHANGED <<pc, first_record, destinations, argVars, all_zones,
                   zone_index, matrix, next_triple, writerVars>>

RectEnd ==
    /\ pc = "rect_loop"
    /\ ReadReturn
    /\ UNCHANGED <<data, argVars, all_zones, zone_index, matrix,
                   next_triple, writerVars>>

(***************************************************************************)
(* get_all_zones.                                                          *)
(***************************************************************************)
\* Vec<i32>::sort_unstable(): ascending, duplicates kept
RECURSIVE InsertSorted(_, _)
InsertSorted(x, s) ==
    IF s = << >> THEN <<x>>
    ELSE IF x <= Head(s) THEN <<x>> \o s
    ELSE <<Head(s)>> \o InsertSorted(x, Tail(s))

RECURSIVE SortUnstable(_)
SortUnstable(s) ==
    IF s = << >> THEN << >> ELSE InsertSorted(Head(s), SortUnstable(Tail(s)))

\* csv::Reader::from_reader(zone_file): the first row is the header; a later
\* row is Ok when it has the header's field count; then get(0)?.parse().ok()
RECURSIVE ZoneFileIds(_, _)
ZoneFileIds(rows, k) ==
    IF k > Len(rows) THEN << >>
    ELSE (IF Len(rows[k]) = Len(rows[1]) /\ ParsesI32(rows[k][1])
          THEN <<ParseI32(rows[k][1])>>
          ELSE << >>)
         \o ZoneFileIds(rows, k + 1)

\* variant of ChunkZones that collects the origins only
ChunkZones_OriginsOnly(chunk) == { chunk[k][1] : k \in 1..Len(chunk) }

\* flat_map(|(origin, destination, _)| vec![*origin, *destination]) into a
\* HashSet, over one chunk of data
ChunkZones(chunk) ==
    { chunk[k][1] : k \in 1..Len(chunk) } \cup
    { chunk[k][2] : k \in 1..Len(chunk) }

\* zones.into_iter().collect(): the elements of a HashSet in any order
IterationOrders(S) ==
    { s \in [1..Cardinality(S) -> S] : Range(s) = S }

\* arg.len() > 3
GetAllZonesFromFile ==
    /\ pc = "get_all_zones"
    /\ arg_len > 3
    /\ all_zones' = SortUnstable(ZoneFileIds(zone_file, 2))
    /\ pc' = "build_matrix"
    /\ UNCHANGED <<readerVars, data, argVars, zone_index, matrix,
                   next_triple, writerVars>>

\* the parallel extraction: data is split at any point, each part collected
\* on its own, the parts merged, the set iterated in any order, then sorted
GetAllZonesFromData ==
    /\ pc = "get_all_zones"
    /\ ~(arg_len > 3)
    /\ \E split \in 0..Len(data) :
         LET left == ChunkZones(SubSeq(data, 1, split))
             right == ChunkZones(SubSeq(data, split + 1, Len(data)))
         IN  \E zones \in IterationOrders(left \cup right) :
                all_zones' = SortUnstable(zones)
    /\ pc' = "build_matrix"
    /\ UNCHANGED <<readerVars, data, argVars, zone_index, matrix,
                   next_triple, writerVars>>

(***************************************************************************)
(* build_matrix.                                                           *)
(***************************************************************************)
EmptyMap == [z \in {} |-> 0]

\* variant of MapInsert that keeps the value of a key already present
MapInsert_KeepFirst(m, key, val) ==
    [z \in DOMAIN m \cup {key} |-> IF z \in DOMAIN m THEN m[z] ELSE val]

\* HashMap::insert: a later insert of the same key replaces the value
MapInsert(m, key, val) ==
    [z \in DOMAIN m \cup {key} |-> IF z = key THEN val ELSE m[z]]

\* all_zones.iter().enumerate().map(|(i, &zone)| (zone, i)).collect()
RECURSIVE CollectZoneIndex(_, _, _)
CollectZoneIndex(zones, m, i) ==
    IF i >= Len(zones) THEN m
    ELSE CollectZoneIndex(zones, MapInsert(m, zones[i + 1], i), i + 1)

\* vec![0.0f32; zone_count * zone_count]
ZeroMatrix(zone_count) == [k \in 1..(zone_count * zone_count) |-> 0]

\* variant of ApplyTriple that writes a cell only while it is 0.0
ApplyTriple_FirstWins(m, index, zone_count, triple) ==
    IF /\ triple[1] \in DOMAIN index /\ triple[2] \in DOMAIN index
       /\ m[index[triple[1]] * zone_count + index[triple[2]] + 1] = 0
    THEN [m EXCEPT ![index[triple[1]] * zone_count + index[triple[2]] + 1]
                      = triple[3]]
    ELSE m

\* variant of ApplyTriple that takes rank 0 for an id without a rank
ApplyTriple_AbsentAsFirst(m, index, zone_count, triple) ==
    LET origin_idx == IF triple[1] \in DOMAIN index THEN index[triple[1]] ELSE 0
        destination_idx ==
            IF triple[2] \in DOMAIN index THEN index[triple[2]] ELSE 0
    IN  IF zone_count > 0
        THEN [m EXCEPT ![origin_idx * zone_count + destination_idx + 1]
                          = triple[3]]
        ELSE m

\* the body of the for loop, on one triple
ApplyTriple(m, index, zone_count, triple) ==
    IF triple[1] \in DOMAIN index /\ triple[2] \in DOMAIN index
    THEN [m EXCEPT ![index[triple[1]] * zone_count + index[triple[2]] + 1]
                      = triple[3]]
    ELSE m

BuildStart ==
    /\ pc = "build_matrix"
    /\ zone_index' = CollectZoneIndex(all_zones, EmptyMap, 0)
    /\ matrix' = ZeroMatrix(Len(all_zones))
    /\ next_triple' = 1
    /\ pc' = "build_loop"
    /\ UNCHANGED <<readerVars, data, argVars, all_zones, writerVars>>

BuildStep ==
    /\ pc = "build_loop"
    /\ next_triple <= Len(data)
    /\ matrix' = ApplyTriple(matrix, zone_index, Len(all_zones),
                             data[next_triple])
    /\ next_triple' = next_triple + 1
    /\ UNCHANGED <<pc, readerVars, data, argVars, all_zones, zone_index,
                   writerVars>>

BuildReturn ==
    /\ pc = "build_loop"
    /\ next_triple > Len(data)
    /\ pc' = "write_mtx_file"
    /\ UNCHANGED <<readerVars, data, argVars, all_zones, zone_index,
                   matrix, next_triple, writerVars>>

(***************************************************************************)
(* The run from read_csv up to the call of write_mtx_file.                 *)
(***************************************************************************)
ExampleZoneFiles ==
    { <<ZoneHeader, <<"1">>, <<"2">>>>,
      <<ZoneHeader, <<"2">>, <<"x">>, <<"2">>>>,
      <<<<"zone", "name">>, <<"1", "a">>, <<"2">>, <<"9", "c">>>> }

IdleWriter ==
    /\ output_gz = FALSE
    /\ is_little_endian = TRUE
    /\ handed = << >>
    /\ sections = << >>
    /\ buffered = << >>
    /\ pushed = << >>
    /\ write_failed = FALSE

IdleReader ==
    /\ nread = 0
    /\ first_record = << >>
    /\ record = << >>
    /\ record_ok = FALSE
    /\ destinations = << >>

IdleAssembler ==
    /\ all_zones = << >>
    /\ zone_index = EmptyMap
    /\ matrix = << >>
    /\ next_triple = 0

Init ==
    /\ pc = "read_csv"
    /\ IdleReader
    /\ data = << >>
    /\ \/ arg_len = 3 /\ zone_file = << >>
       \/ arg_len = 4 /\ zone_file \in ExampleZoneFiles
    /\ IdleAssembler
    /\ IdleWriter

Next ==
    \/ ReadEmpty
    \/ ReadFirstSparse
    \/ ReadFirstRect
    \/ RectCheckHeader
    \/ SparseNext
    \/ SparseEnd
    \/ RectNext
    \/ RectEnd
    \/ GetAllZonesFromFile
    \/ GetAllZonesFromData
    \/ BuildStart
    \/ BuildStep
    \/ BuildReturn

Spec == Init /\ [][Next]_vars

(***************************************************************************)
(* The resolver and the assembler on their own: main has read any triples  *)
(* and calls get_all_zones, with or without a zone file.                   *)
(***************************************************************************)
TripleDomain == {1, 2} \X {1, 2} \X {0, 1077936128}

\* the rows 1,1,2.0 / 1,2,0.0 / 2,1,3.0 as triples
ExampleData ==
    << <<1, 1, 1073741824>>, <<1, 2, 0>>, <<2, 1, 1077936128>> >>

ZoneFileDomain ==
    { <<ZoneHeader>> \o rows : rows \in SeqsUpTo(ZoneRowDomain, MaxZoneRows) }

InitAssemble ==
    /\ pc = "get_all_zones"
    /\ IdleReader
    /\ data \in SeqsUpTo(TripleDomain, MaxTriples) \cup {ExampleData}
    /\ \/ arg_len = 3 /\ zone_file = << >>
       \/ arg_len = 4 /\ zone_file \in ZoneFileDomain
    /\ IdleAssembler
    /\ IdleWriter

NextAssemble ==
    \/ GetAllZonesFromFile
    \/ GetAllZonesFromData
    \/ BuildStart
    \/ BuildStep
    \/ BuildReturn

SpecAssemble == InitAssemble /\ [][NextAssemble]_vars

(***************************************************************************)
(* write_mtx_file.                                                         *)
(***************************************************************************)
\* the four bytes of a 32-bit word below 2^31, least significant first
LowBytes(u) ==
    <<u % 256, (u \div 256) % 256, (u \div 65536) % 256, u \div 16777216>>

\* i32::to_le_bytes and, on the bit pattern, f32::to_le_bytes: two's
\* complement, a negative word is the word 2^31 higher with the top bit set
ToLeBytes(w) ==
    IF w >= 0 THEN LowBytes(w)
    ELSE LET low == LowBytes((w + 2147483647) + 1)
         IN  <<low[1], low[2], low[3], low[4] + 128>>

Reversed(b) == <<b[4], b[3], b[2], b[1]>>

\* the bytes of a word as the host holds it in memory
NativeBytes(w, little) == IF little THEN ToLeBytes(w) ELSE Reversed(ToLeBytes(w))

\* bytemuck::cast_slice: the buffer reinterpreted as raw bytes on this host
RECURSIVE CastSlice(_, _)
CastSlice(words, little) ==
    IF words = << >> THEN << >>
    ELSE NativeBytes(Head(words), little) \o CastSlice(Tail(words), little)

\* flat_map(|&x| x.to_le_bytes()) over one part of the slice
RECURSIVE FlatMapLeBytes(_)
FlatMapLeBytes(words) ==
    IF words = << >> THEN << >>
    ELSE ToLeBytes(Head(words)) \o FlatMapLeBytes(Tail(words))

\* variant of ParFlatMapCollect that joins the parts as they finish
ParFlatMapCollect_AsFinished(words, split) ==
    FlatMapLeBytes(SubSeq(words, split + 1, Len(words)))
        \o FlatMapLeBytes(SubSeq(words, 1, split))

\* par_iter().flat_map(..).collect::<Vec<u8>>(): the slice is split at some
\* point, the parts are mapped independently and collect() joins the
\* results in the order of the parts
ParFlatMapCollect(words, split) ==
    FlatMapLeBytes(SubSeq(words, 1, split))
        \o FlatMapLeBytes(SubSeq(words, split + 1, Len(words)))

\* 0xC4D4F1B2u32.to_le_bytes(): the low and the high half of the constant
MagicBytes ==
    <<61874 % 256, 61874 \div 256, 50388 % 256, 50388 \div 256>>

\* variant of HeaderField with the type and the dimension count exchanged
HeaderField_TypeAfterDimensions(k, zone_count) ==
    CASE k = 1 -> MagicBytes
      [] k = 2 -> ToLeBytes(1)
      [] k = 3 -> ToLeBytes(2)
      [] k = 4 -> ToLeBytes(1)
      [] k = 5 -> ToLeBytes(zone_count)
      [] k = 6 -> ToLeBytes(zone_count)

\* the six write_all calls of the header, in the order of the code
HeaderField(k, zone_count) ==
    CASE k = 1 -> MagicBytes
      [] k = 2 -> ToLeBytes(1)
      [] k = 3 -> ToLeBytes(1)
      [] k = 4 -> ToLeBytes(2)
      [] k = 5 -> ToLeBytes(zone_count)
      [] k = 6 -> ToLeBytes(zone_count)

SectionNames ==
    <<"magic", "version", "type", "dimensions", "origin_size",
      "destination_size", "origin_zones", "destination_zones", "matrix">>

\* BufWriter::write_all, the call succeeding.  A call that fits in the spare
\* capacity is copied to the buffer; otherwise (write_all_cold) the buffer
\* is flushed when the bytes exceed the spare capacity, and the bytes go
\* straight to the inner writer when they are at least the capacity.
WriteAllOk(bytes) ==
    LET spare == BufCapacity - Len(buffered)
        flush == ~(Len(bytes) < spare) /\ Len(bytes) > spare
        kept == IF flush THEN << >> ELSE buffered
        sent == IF flush THEN pushed \o buffered ELSE pushed
    IN  /\ handed' = handed \o bytes
        /\ IF ~(Len(bytes) < spare) /\ Len(bytes) >= BufCapacity
           THEN /\ buffered' = kept
                /\ pushed' = sent \o bytes
           ELSE /\ buffered' = kept \o bytes
                /\ pushed' = sent
        /\ write_failed' = write_failed
        /\ sections' = Append(sections, SectionNames[Len(sections) + 1])
        /\ pc' = pc

\* BufWriter::write_all returning Err: a write to the inner writer (File or
\* GzEncoder<File>), made by flush_buf or for the bytes themselves, failed;
\* .unwrap() panics
WriteAllErr(bytes) ==
    LET spare == BufCapacity - Len(buffered)
    IN  /\ ~(Len(bytes) < spare)
        /\ \/ Len(bytes) > spare /\ buffered # << >>
           \/ Len(bytes) >= BufCapacity /\ bytes # << >>
        /\ handed' = handed \o bytes
        /\ write_failed' = TRUE
        /\ pc' = "panicked"
        /\ UNCHANGED <<buffered, pushed, sections>>

WriteAll(bytes) == WriteAllOk(bytes) \/ WriteAllErr(bytes)

\* File::create(output_file_name).unwrap() and the choice of the writer
CreateOutput ==
    /\ pc = "write_mtx_file"
    /\ \/ pc' = "writing"
       \/ pc' = "panicked"
    /\ UNCHANGED <<readerVars, data, argVars, all_zones, zone_index, matrix,
                   next_triple, writerVars>>

WriteHeader ==
    /\ pc = "writing"
    /\ Len(sections) < 6
    /\ WriteAll(HeaderField(Len(sections) + 1, Len(all_zones)))
    /\ UNCHANGED <<readerVars, data, argVars, all_zones, zone_index, matrix,
                   next_triple, output_gz, is_little_endian>>

\* if is_little_endian { ... }
WriteLittleEndian ==
    /\ pc = "writing"
    /\ is_little_endian
    /\ Len(sections) \in 6..8
    /\ LET origin_zone_bytes == CastSlice(all_zones, is_little_endian)
           matrix_bytes == CastSlice(matrix, is_little_endian)
       IN  IF Len(sections) < 8 THEN WriteAll(origin_zone_bytes)
           ELSE WriteAll(matrix_bytes)
    /\ UNCHANGED <<readerVars, data, argVars, all_zones, zone_index, matrix,
                   next_triple, output_gz, is_little_endian>>

\* else { ... }
WriteBigEndian ==
    /\ pc = "writing"
    /\ ~is_little_endian
    /\ Len(sections) \in 6..8
    /\ IF Len(sections) < 8
       THEN \E split \in 0..Len(all_zones) :
               WriteAll(ParFlatMapCollect(all_zones, split))
       ELSE \E split \in 0..Len(matrix) :
               WriteAll(ParFlatMapCollect(matrix, split))
    /\ UNCHANGED <<readerVars, data, argVars, all_zones, zone_index, matrix,
                   next_triple, output_gz, is_little_endian>>

\* write_mtx_file returns and writer is dropped: BufWriter::drop calls
\* flush_buf and GzEncoder::drop calls try_finish, both discarding the
\* result; main returns
DropWriter ==
    /\ pc = "writing"
    /\ Len(sections) = 9
    /\ \/ /\ pushed' = pushed \o buffered
          /\ buffered' = << >>
          /\ write_failed' = write_failed
       \/ /\ buffered # << >>
          /\ write_failed' = TRUE
          /\ UNCHANGED <<buffered, pushed>>
       \/ /\ output_gz
          /\ pushed' = pushed \o buffered
          /\ buffered' = << >>
          /\ write_failed' = TRUE
    /\ pc' = "done"
    /\ UNCHANGED <<readerVars, data, argVars, all_zones, zone_index, matrix,
                   next_triple, output_gz, is_little_endian, handed,
                   sections>>

(***************************************************************************)
(* The serializer on its own: main calls write_mtx_file with a zone list   *)
(* and a matrix of its square size, on either host, for either transport.  *)
(***************************************************************************)
ZoneIdDomain == {-1, 2, 258}

F32Domain == {0, 1077936128}

InitWrite ==
    /\ pc = "write_mtx_file"
    /\ IdleReader
    /\ data = << >>
    /\ arg_len \in {3, 4}
    /\ zone_file = << >>
    /\ all_zones \in { z \in SeqsUpTo(ZoneIdDomain, MaxZones) : IsSorted(z) }
    /\ zone_index = CollectZoneIndex(all_zones, EmptyMap, 0)
    /\ matrix \in [1..(Len(all_zones) * Len(all_zones)) -> F32Domain]
    /\ next_triple = 1
    /\ output_gz \in BOOLEAN
    /\ is_little_endian \in BOOLEAN
    /\ handed = << >>
    /\ sections = << >>
    /\ buffered = << >>
    /\ pushed = << >>
    /\ write_failed = FALSE

NextWrite ==
    \/ CreateOutput
    \/ WriteHeader
    \/ WriteLittleEndian
    \/ WriteBigEndian
    \/ DropWriter

SpecWrite == InitWrite /\ [][NextWrite]_vars

(***************************************************************************)
(* Properties of the reader (specification Spec).                          *)
(***************************************************************************)
\* the elements of a finite set of numbers, ascending
Ascending(S) ==
    [i \in 1..Cardinality(S) |->
        CHOOSE k \in S : Cardinality({j \in S : j < k}) = i - 1]

\* the triples data gained in this step
Gained == SubSeq(data', Len(data) + 1, Len(data'))

\* rec, read as origin, destination, value, accounts for the triples got
AsSparseRow(rec, got) ==
    \/ got = << >>
    \/ /\ Len(got) = 1
       /\ Len(rec) = 3
       /\ ParsesI32(rec[1]) /\ ParsesI32(rec[2]) /\ ParsesF32(rec[3])
       /\ got[1] = <<ParseI32(rec[1]), ParseI32(rec[2]), ParseF32(rec[3])>>

InSparse == pc = "sparse_loop"
InRect == pc \in {"rect_header", "rect_loop"}

\* the format follows the field count of the first record, and a later
\* record moves the reader neither from one format to the other nor back
C4_Step ==
    /\ pc = "read_csv" /\ pc' # "get_all_zones" =>
         /\ InSparse' <=> Len(first_record') = 3
         /\ InRect' <=> Len(first_record') # 3
         /\ InSparse' => AsSparseRow(first_record', data')
         /\ InRect' => data' = << >>
    /\ InSparse => /\ pc' \in {"sparse_loop", "get_all_zones"}
                   /\ InSparse' => first_record' = first_record
    /\ InRect => /\ pc' \in {"rect_header", "rect_loop", "get_all_zones"}
                 /\ InRect' => first_record' = first_record
    /\ InSparse /\ InSparse' =>
         /\ data = SubSeq(data', 1, Len(data))
         /\ AsSparseRow(record', Gained)
    /\ InRect /\ InRect' =>
         \A k \in 1..Len(Gained) : Gained[k][2] \in Range(destinations)

HeaderIdPositions(header) == { k \in 2..Len(header) : ParsesI32(header[k]) }

\* the 0-based positions k after the origin field of rec that give a triple
CellPositions(rec, dests) ==
    { k \in 0..(Len(rec) - 2) :
        /\ k < Len(dests)
        /\ ParsesF32(rec[k + 2])
        /\ ParseF32(rec[k + 2]) # 0 }

\* the triples the cells of rec give, in the order of the cells
CellTriples(rec, dests) ==
    LET at == Ascending(CellPositions(rec, dests))
    IN  [i \in 1..Len(at) |->
            <<ParseI32(rec[1]), dests[at[i] + 1], ParseF32(rec[at[i] + 2])>>]

C10_Header ==
    /\ pc = "read_csv" /\ InRect' =>
         LET at == Ascending(HeaderIdPositions(first_record'))
         IN  destinations' = [i \in 1..Len(at) |-> ParseI32(first_record'[at[i]])]
    /\ pc = "rect_header" /\ destinations = << >> =>
         pc' = "get_all_zones" /\ data' = << >>

\* what a row of the rectangular loop adds to data, for the rows in Rows
C10_Row(accepted) ==
    pc = "rect_loop" /\ pc' = "rect_loop" =>
        /\ data = SubSeq(data', 1, Len(data))
        /\ IF accepted /\ ParsesI32(record'[1])
           THEN Gained = CellTriples(record', destinations)
           ELSE Gained = << >>

\* C10 as stated: in rectangular mode destinations is the list of header
\* fields after the first that parse as integers, in order; for EVERY later
\* row with a parseable origin the field at position k yields the triple
\* (origin, destinations[k], value) exactly when k < len(destinations) and
\* the field parses to a non-zero float; rows with an unparseable origin
\* yield nothing; an empty destinations list yields no triple.
C10_AsStated == [][C10_Header /\ C10_Row(TRUE)]_vars

\* C10, amended: the same, for every later row that has the field count of
\* the first row; a later row with another field count is an error of the
\* CSV reader and yields nothing, whatever its fields.
C10_RectangularCells ==
    [][C10_Header /\ C10_Row(Len(record') = Len(first_record))]_vars

\* header "", "1", "x", "2" gives destinations 1, 2; the row
\* "1", "2.0", "0.0", "3.0" gives (1, 1, 2.0) alone: its second cell is
\* zero and its third has no destination
C10_Witness ==
    /\ pc = "rect_loop"
    /\ first_record = <<"", "1", "x", "2">>
    /\ destinations = <<1, 2>>
    /\ record = <<"1", "2.0", "0.0", "3.0">>
    /\ data = << <<1, 1, 1073741824>> >>

\* the triples of data that are the last of their (origin, destination)
LastOfPair(k) ==
    \A later \in (k + 1)..Len(data) :
        data[later][1] # data[k][1] \/ data[later][2] # data[k][2]

\* the rank of an id in a strictly ascending zone list
RankIn(zones, z) == (CHOOSE i \in 1..Len(zones) : zones[i] = z) - 1

C5_State ==
    /\ InRect => \A k \in 1..Len(data) : data[k][3] # 0
    /\ pc = "write_mtx_file" /\ ~(arg_len > 3) =>
         \A k \in 1..Len(data) :
            data[k][3] = 0 =>
               /\ data[k][1] \in Range(all_zones)
               /\ data[k][2] \in Range(all_zones)
               /\ LastOfPair(k) =>
                    matrix[RankIn(all_zones, data[k][1]) * Len(all_zones)
                           + RankIn(all_zones, data[k][2]) + 1] = 0

C5_Step ==
    /\ InSparse'
    /\ nread' = nread + 1 \/ pc = "read_csv"
    /\ record_ok'
    /\ ParsesI32(record'[1]) /\ ParsesI32(record'[2]) /\ ParsesF32(record'[3])
    => Gained = << <<ParseI32(record'[1]), ParseI32(record'[2]),
                     ParseF32(record'[3])>> >>

\* C5: in rectangular mode no triple with value 0.0 is emitted; in sparse
\* mode every row whose three fields parse yields its triple, also when the
\* value is 0.0, and such a triple puts its origin and destination in the
\* zone list derived from data and overwrites an earlier value of its pair.
C5_ZeroAsymmetry == []C5_State /\ [][C5_Step]_vars

\* sparse rows 1,2,9 then 1,2,0.0: the zero is kept and wins the cell
C5_Witness ==
    /\ pc = "write_mtx_file"
    /\ arg_len = 3
    /\ data = << <<1, 2, 1091567616>>, <<1, 2, 0>> >>
    /\ all_zones = <<1, 2>>
    /\ matrix = <<0, 0, 0, 0>>

(***************************************************************************)
(* Properties of the resolver and the assembler (SpecAssemble).            *)
(***************************************************************************)
Resolved == pc \in {"build_matrix", "build_loop", "write_mtx_file"}
Allocated == pc \in {"build_loop", "write_mtx_file"}

MaxOf(S) == CHOOSE m \in S : \A x \in S : x <= m

\* the rank an id resolves to: the last position holding it, from 0
LastRank(z) == MaxOf({ i \in 1..Len(all_zones) : all_zones[i] = z }) - 1

Present(triple) ==
    triple[1] \in Range(all_zones) /\ triple[2] \in Range(all_zones)

\* the triples of seq that resolve to rank (i, j)
TriplesAt(seq, i, j) ==
    { k \in 1..Len(seq) :
        /\ Present(seq[k])
        /\ LastRank(seq[k][1]) = i
        /\ LastRank(seq[k][2]) = j }

LastValue(seq, i, j) ==
    IF TriplesAt(seq, i, j) = {} THEN 0
    ELSE seq[MaxOf(TriplesAt(seq, i, j))][3]

Ranks == 0..(Len(all_zones) - 1)

Cell(i, j) == matrix[i * Len(all_zones) + j + 1]

\* C2: build_matrix returns exactly n*n cells; cell[i*n+j] is the value of
\* the last triple, in sequence order, whose origin resolves to rank i and
\* whose destination resolves to rank j, and 0.0 when there is none.
C2_LastWriteWins ==
    pc = "write_mtx_file" =>
        /\ Len(matrix) = Len(all_zones) * Len(all_zones)
        /\ \A i \in Ranks, j \in Ranks : Cell(i, j) = LastValue(data, i, j)

\* (1, 2, 3.0) then (1, 2, 0.0) with zones 1, 2: cell[0*2+1] is 0.0
C2_Witness ==
    /\ pc = "write_mtx_file"
    /\ all_zones = <<1, 2>>
    /\ data = << <<1, 2, 1077936128>>, <<1, 2, 0>> >>
    /\ matrix = <<0, 0, 0, 0>>

\* C3: without a zone file the zone list is strictly ascending, holds
\* exactly the ids that are origin or destination of a triple, whatever the
\* split and merge of the extraction, and the matrix has its square size.
C3_DataZonesAscending ==
    Resolved /\ ~(arg_len > 3) =>
        /\ \A k \in 1..(Len(all_zones) - 1) : all_zones[k] < all_zones[k + 1]
        /\ Range(all_zones) = { data[k][1] : k \in 1..Len(data) } \cup
                              { data[k][2] : k \in 1..Len(data) }
        /\ Allocated => Len(matrix) = Len(all_zones) * Len(all_zones)

\* triples (2, 2, v) then (1, 2, w): the ids come out as 1, 2
C3_Witness ==
    /\ pc = "write_mtx_file"
    /\ arg_len = 3
    /\ Len(data) = 2
    /\ data[1][1] = 2 /\ data[1][2] = 2 /\ data[2][1] = 1
    /\ all_zones = <<1, 2>>
    /\ Len(matrix) = 4

C6_State ==
    /\ Allocated => Len(matrix) = Len(all_zones) * Len(all_zones)
    /\ pc = "write_mtx_file" =>
         \A i \in Ranks, j \in Ranks :
            Cell(i, j) = LastValue(SelectSeq(data, Present), i, j)

C6_Step ==
    /\ pc = "build_loop"
    /\ next_triple' = next_triple + 1
    /\ ~Present(data[next_triple])
    => matrix' = matrix

\* C6: a triple whose origin or destination is not in the zone list is
\* dropped: the step that meets it changes no cell, the matrix keeps n*n
\* cells, and the result is that of the sequence without such triples.
C6_AbsentZoneDropped == []C6_State /\ [][C6_Step]_vars

\* zone file with the single id 1; (2, 1, 3.0) is dropped, (1, 1, 3.0) kept
C6_Witness ==
    /\ pc = "write_mtx_file"
    /\ arg_len = 4
    /\ all_zones = <<1>>
    /\ data = << <<2, 1, 1077936128>>, <<1, 1, 1077936128>> >>
    /\ matrix = <<1077936128>>

\* the rows of the zone file, after the header, that give the id z
ZoneFileRowsOf(z) ==
    { k \in 2..Len(zone_file) :
        /\ Len(zone_file[k]) = Len(zone_file[1])
        /\ ParsesI32(zone_file[k][1])
        /\ ParseI32(zone_file[k][1]) = z }

ZoneFileRowIds ==
    { ParseI32(zone_file[k][1]) :
        k \in { r \in 2..Len(zone_file) :
                  /\ Len(zone_file[r]) = Len(zone_file[1])
                  /\ ParsesI32(zone_file[r][1]) } }

SectionsEnd(m) ==
    LET n == Len(all_zones)
    IN  CASE m <= 6 -> 4 * m
          [] m = 7 -> 24 + 4 * n
          [] m = 8 -> 24 + 8 * n
          [] m = 9 -> 24 + 8 * n + 4 * n * n

\* the k-th 32-bit word of the stream, from 0, read as little-endian i32
WordAt(k) ==
    LET top == handed[4 * k + 4]
    IN  handed[4 * k + 1] + 256 * handed[4 * k + 2] + 65536 * handed[4 * k + 3]
        + 16777216 * (IF top >= 128 THEN top - 256 ELSE top)

\* the word the container holds at position k; 0xC4D4F1B2 as an i32
ContainerWord(k) ==
    LET n == Len(all_zones)
    IN  CASE k = 0 -> -992677454
          [] k \in {1, 2} -> 1
          [] k = 3 -> 2
          [] k \in {4, 5} -> n
          [] k >= 6 /\ k < 6 + n -> all_zones[k - 5]
          [] k >= 6 + n /\ k < 6 + 2 * n -> all_zones[k - 5 - n]
          [] k >= 6 + 2 * n -> matrix[k - 5 - 2 * n]

\* C1: for either transport the bytes handed to the writer are, in this
\* order, the 24-byte header (magic, 1, 1, 2, n, n), the n zone ids, the n
\* zone ids again and the n*n values row-major, each section complete
\* before the next starts; a finished run has handed 24 + 8n + 4n*n bytes.
C1_SectionOrder ==
    /\ sections = SubSeq(SectionNames, 1, Len(sections))
    /\ Len(handed) % 4 = 0
    /\ pc # "panicked" => Len(handed) = SectionsEnd(Len(sections))
    /\ pc = "panicked" /\ handed # << >> =>
          Len(handed) = SectionsEnd(Len(sections) + 1)
    /\ \A k \in 0..((Len(handed) \div 4) - 1) : WordAt(k) = ContainerWord(k)
    /\ handed # << >> => SubSeq(handed, 1, 4) = <<178, 241, 212, 196>>
    /\ pc = "done" =>
          /\ Len(sections) = 9
          /\ Len(handed) = 24 + 8 * Len(all_zones)
                              + 4 * Len(all_zones) * Len(all_zones)

\* a finished gzip run with zones 2, 258 and a non-zero cell: 56 bytes
C1_Witness ==
    /\ pc = "done"
    /\ output_gz
    /\ all_zones = <<2, 258>>
    /\ matrix[2] # 0
    /\ Len(handed) = 56
    /\ SubSeq(handed, 29, 32) = <<2, 1, 0, 0>>

\* what the little-endian branch hands to the writer for these buffers
LittleEndianStream ==
    HeaderField(1, Len(all_zones)) \o HeaderField(2, Len(all_zones))
        \o HeaderField(3, Len(all_zones)) \o HeaderField(4, Len(all_zones))
        \o HeaderField(5, Len(all_zones)) \o HeaderField(6, Len(all_zones))
        \o CastSlice(all_zones, TRUE) \o CastSlice(all_zones, TRUE)
        \o CastSlice(matrix, TRUE)

\* C7: the big-endian branch (to_le_bytes per element through a parallel
\* map) hands the writer the byte sequence of the little-endian branch:
\* the elements in their order, each as its 4 little-endian bytes,
\* however the parallel map is split.
C7_BigEndianSameBytes ==
    /\ ~is_little_endian /\ pc = "done" => handed = LittleEndianStream
    /\ ~is_little_endian =>
          handed = SubSeq(LittleEndianStream, 1, Len(handed))

\* a finished big-endian run with zones -1, 258 and a non-zero last cell
C7_Witness ==
    /\ pc = "done"
    /\ ~is_little_endian
    /\ all_zones = <<-1, 258>>
    /\ matrix[4] # 0
    /\ SubSeq(handed, 25, 32) = <<255, 255, 255, 255, 2, 1, 0, 0>>
    /\ SubSeq(handed, 53, 56) = <<0, 0, 64, 64>>

\* C8: a failed creation of the output file or a failed write, inside
\* write_all or when the bytes held by the buffered (and gzip) writer are
\* pushed to the file at last, aborts the run: a run that ends normally has
\* had no failed write.
C8_WriteFailureAborts == pc = "done" => ~write_failed

====
